---------------------------- MODULE Spec2Model ----------------------------
(***************************************************************************)
(* Caption generation and history keeping of krishna-reel-machine:         *)
(*   src/generate_text.py  generate_unique_krishna_line and its helpers    *)
(*   src/create_image.py   generate_deep_krishna_line and its helpers      *)
(*                                                                         *)
(* A string is a sequence of glyphs.  A glyph is one unit the code can     *)
(* tell apart: a Devanagari word or name (written in Latin transcription), *)
(* the danda "|", a Latin letter, a blank, a punctuation mark, a quote, an *)
(* emoji.  "shri" followed by "krishna" with no blank spells the one word  *)
(* shrikrishna, so a search for the name krishna finds it there, as the    *)
(* regular expression of the code does.                                    *)
(***************************************************************************)
EXTENDS Integers, Sequences, FiniteSets, TLC

----------------------------------------------------------------------------
(* Bounds of the model *)

\* runs of the generators (both together) in one behaviour
MaxRuns == 2
\* the max_attempts argument of both generators
MaxAttempts == 2
\* random.sample draws among the first MaxSample emojis of EMOJIS
MaxSample == 2
\* glyphs of candidate and history together, and entries of the history, in
\* the specification of is_too_similar
MaxGlyphs == 4
MaxHist == 2

----------------------------------------------------------------------------
(* Glyph classes *)

\* \s of the regular expressions, str.strip and str.split
Whitespace == {" ", "NL"}

\* [A-Za-z]
AsciiLetters == {"x", "X", "i"}

\* U+0130, a letter outside [A-Za-z] whose lower() is "i" + U+0307
DottedCapital == "Idot"

\* U+0307, a combining mark: neither \w nor \s
CombiningDot == "dotabove"

\* the names the validator of generate_text.py accepts
KrishnaNames == {"krishna", "kanha", "shyam", "gopal", "madhav"}

\* letters of the block U+0900..U+097F, one glyph per word
DevanagariWords ==
    KrishnaNames \cup
    {"shri", "jab", "sab", "chhoot", "jaae", "tab", "bhi", "saath", "rahte",
     "hain", "jisne", "ko", "paaya", "usne", "kuchh", "paa", "liya", "par",
     "chhod", "do", "vah", "tumhen", "sambhaal", "lenge", "jahaan",
     "bharosa", "ho", "vahaan", "dar", "kabhi", "tikta", "nahin", "ka",
     "naam", "hi", "har", "samasya", "samaadhaan", "hai", "jo", "hua",
     "achchha", "raha", "ki", "ichchha", "se", "sharan", "mein", "gae", "to",
     "phir", "kisi", "sahaare", "zaroorat", "toote", "dil", "dava", "sirf",
     "ek", "ne", "ab", "mujhe", "baat", "chup", "lekin", "galat", "karte",
     "mere", "dekh", "rahe", "sada"}

\* the danda U+0964 lies in U+0900..U+097F too
Danda == "|"

InDevanagariBlock(g) == g \in DevanagariWords \cup {Danda}

\* \w of a Python 3 str pattern: letters, digits, underscore of any script
IsWordChar(g) ==
    g \in AsciiLetters \cup DevanagariWords \cup {DottedCapital, "7", "_"}

----------------------------------------------------------------------------
(* Python string operations *)

RECURSIVE LStrip(_)
LStrip(s) ==
    IF s # <<>> /\ Head(s) \in Whitespace THEN LStrip(Tail(s)) ELSE s

RECURSIVE RStrip(_)
RStrip(s) ==
    IF s # <<>> /\ s[Len(s)] \in Whitespace
    THEN RStrip(SubSeq(s, 1, Len(s) - 1))
    ELSE s

\* str.strip()
Strip(s) == RStrip(LStrip(s))

\* str.split(): the maximal runs of non-blank glyphs
RECURSIVE SplitFrom(_, _, _)
SplitFrom(s, cur, acc) ==
    IF s = <<>>
    THEN IF cur = <<>> THEN acc ELSE Append(acc, cur)
    ELSE IF Head(s) \in Whitespace
         THEN SplitFrom(Tail(s), <<>>,
                        IF cur = <<>> THEN acc ELSE Append(acc, cur))
         ELSE SplitFrom(Tail(s), Append(cur, Head(s)), acc)

Split(s) == SplitFrom(s, <<>>, <<>>)

\* " ".join(words)
RECURSIVE JoinWords(_)
JoinWords(ws) ==
    IF ws = <<>> THEN <<>>
    ELSE IF Len(ws) = 1 THEN ws[1]
    ELSE ws[1] \o <<" ">> \o JoinWords(Tail(ws))

\* re.sub(r"\s+", " ", text)
RECURSIVE CollapseSpaces(_)
CollapseSpaces(s) ==
    IF s = <<>> THEN <<>>
    ELSE IF Head(s) \in Whitespace
         THEN <<" ">> \o CollapseSpaces(LStrip(s))
         ELSE <<Head(s)>> \o CollapseSpaces(Tail(s))

\* str.lower() of one glyph; U+0130 becomes two code points
LowerGlyph(g) ==
    IF g = "X" THEN <<"x">>
    ELSE IF g = DottedCapital THEN <<"i", CombiningDot>>
    ELSE <<g>>

\* str.lower()
RECURSIVE Lower(_)
Lower(s) == IF s = <<>> THEN <<>> ELSE LowerGlyph(Head(s)) \o Lower(Tail(s))

\* a in b
IsSubstr(a, b) ==
    \E i \in 0..(Len(b) - Len(a)) : SubSeq(b, i + 1, i + Len(a)) = a

\* text.split("\n")[0]
RECURSIVE FirstLine(_)
FirstLine(s) ==
    IF s = <<>> \/ Head(s) = "NL" THEN <<>>
    ELSE <<Head(s)>> \o FirstLine(Tail(s))

Range(s) == {s[i] : i \in DOMAIN s}

----------------------------------------------------------------------------
(* src/generate_text.py: the similarity guard and the validator *)

\* the glyphs re.sub(r"[^\w\s\u0900-\u097F]", "", text) keeps
KeptByNormalize(g) ==
    IsWordChar(g) \/ g \in Whitespace \/ InDevanagariBlock(g)

normalize_for_compare(text) ==
    Lower(Strip(CollapseSpaces(SelectSeq(text, KeptByNormalize))))

\* the loop with the containment test left out
RECURSIVE SimilarFrom_exact_only(_, _, _)
SimilarFrom_exact_only(cand_norm, used_lines, i) ==
    IF i > Len(used_lines) THEN FALSE
    ELSE LET old_norm == normalize_for_compare(used_lines[i])
         IN  IF old_norm = <<>>
             THEN SimilarFrom_exact_only(cand_norm, used_lines, i + 1)
             ELSE IF cand_norm = old_norm THEN TRUE
             ELSE SimilarFrom_exact_only(cand_norm, used_lines, i + 1)

\* the loop over used_lines, from entry i on
RECURSIVE SimilarFrom(_, _, _)
SimilarFrom(cand_norm, used_lines, i) ==
    IF i > Len(used_lines) THEN FALSE
    ELSE LET old_norm == normalize_for_compare(used_lines[i])
         IN  IF old_norm = <<>> THEN SimilarFrom(cand_norm, used_lines, i + 1)
             ELSE IF cand_norm = old_norm THEN TRUE
             ELSE IF IsSubstr(cand_norm, old_norm)
                     \/ IsSubstr(old_norm, cand_norm) THEN TRUE
             ELSE SimilarFrom(cand_norm, used_lines, i + 1)

is_too_similar_skipping_empty_candidate(candidate, used_lines) ==
    SimilarFrom(normalize_for_compare(candidate), used_lines, 1)

is_too_similar(candidate, used_lines) ==
    LET cand_norm == normalize_for_compare(candidate)
    IN  IF cand_norm = <<>> THEN TRUE
        ELSE SimilarFrom(cand_norm, used_lines, 1)

\* the quotes both clean_line functions remove
QuoteGlyphs == {"dq", "ldq", "rdq", "sq", "lsq", "rsq"}

RECURSIVE DropLeadingQuotes(_)
DropLeadingQuotes(s) ==
    IF s # <<>> /\ Head(s) \in QuoteGlyphs
    THEN DropLeadingQuotes(Tail(s))
    ELSE s

RECURSIVE DropTrailingQuotes(_)
DropTrailingQuotes(s) ==
    IF s # <<>> /\ s[Len(s)] \in QuoteGlyphs
    THEN DropTrailingQuotes(SubSeq(s, 1, Len(s) - 1))
    ELSE s

\* clean_line of generate_text.py
gt_clean_line(text) ==
    Strip(CollapseSpaces(DropTrailingQuotes(DropLeadingQuotes(Strip(text)))))

\* minimum word count of is_valid_hindi_line
GT_MIN_WORDS == 4

is_valid_hindi_line(line) ==
    IF ~ \E i \in DOMAIN line : InDevanagariBlock(line[i]) THEN FALSE
    ELSE IF \E i \in DOMAIN line : line[i] \in AsciiLetters THEN FALSE
    ELSE IF ~ \E i \in DOMAIN line : line[i] \in KrishnaNames THEN FALSE
    ELSE IF Len(Split(line)) < GT_MIN_WORDS THEN FALSE
    ELSE TRUE

----------------------------------------------------------------------------
(* src/create_image.py: configuration and text cleaning *)

\* the emojis of create_image.py, in list order
EMOJIS ==
    <<"heart", "blossom", "peacock", "dove", "sparkles", "blueheart", "herb",
      "moon">>

Example1 ==
    <<"jab", " ", "sab", " ", "chhoot", " ", "jaae", ",", " ", "tab", " ",
      "bhi", " ", "shri", "krishna", " ", "saath", " ", "rahte", " ", "hain",
      "|", " ", "heart">>
Example2 ==
    <<"jisne", " ", "krishna", " ", "ko", " ", "paaya", ",", " ", "usne", " ",
      "sab", " ", "kuchh", " ", "paa", " ", "liya", "|", " ", "blossom">>
Example3 ==
    <<"krishna", " ", "par", " ", "chhod", " ", "do", ",", " ", "vah", " ",
      "tumhen", " ", "sambhaal", " ", "lenge", "|", " ", "blueheart">>
Example4 ==
    <<"jahaan", " ", "bharosa", " ", "krishna", " ", "par", " ", "ho", ",",
      " ", "vahaan", " ", "dar", " ", "kabhi", " ", "tikta", " ", "nahin",
      "|", " ", "sparkles">>
Example5 ==
    <<"krishna", " ", "ka", " ", "naam", " ", "hi", " ", "har", " ",
      "samasya", " ", "ka", " ", "samaadhaan", " ", "hai", "|", " ",
      "peacock">>
Example6 ==
    <<"jo", " ", "hua", " ", "achchha", " ", "hua", ",", " ", "jo", " ", "ho",
      " ", "raha", " ", "hai", " ", "krishna", " ", "ki", " ", "ichchha",
      " ", "se", " ", "ho", " ", "raha", " ", "hai", "|", " ", "herb">>
Example7 ==
    <<"krishna", " ", "ki", " ", "sharan", " ", "mein", " ", "gae", " ", "to",
      " ", "phir", " ", "kisi", " ", "sahaare", " ", "ki", " ", "zaroorat",
      " ", "nahin", "|", " ", "dove">>
Example8 ==
    <<"har", " ", "toote", " ", "dil", " ", "ki", " ", "dava", " ", "sirf",
      " ", "ek", " ", "emdash", " ", "shri", "krishna", "|", " ", "heart">>
Example9 ==
    <<"krishna", " ", "ne", " ", "sambhaal", " ", "liya", ",", " ", "ab", " ",
      "mujhe", " ", "kisi", " ", "baat", " ", "ka", " ", "dar", " ", "nahin",
      "|", " ", "moon">>
\* the last example ends with the trident, which EMOJIS does not list
Example10 ==
    <<"krishna", " ", "chup", " ", "rahte", " ", "hain", ",", " ", "lekin",
      " ", "kabhi", " ", "galat", " ", "nahin", " ", "karte", "|", " ",
      "trident">>

STYLE_EXAMPLES ==
    <<Example1, Example2, Example3, Example4, Example5, Example6, Example7,
      Example8, Example9, Example10>>

is_hindi(text) == \E i \in DOMAIN text : InDevanagariBlock(text[i])

\* the glyphs clean_line of create_image.py peels off, in loop order
CI_PEEL == <<"dq", "ldq", "rdq", "sq", "lsq", "rsq", "-", "bullet">>

\* one round of the loop: startswith(ch), then endswith(ch)
PeelOnce(text, ch) ==
    LET t1 == IF text # <<>> /\ Head(text) = ch
              THEN Strip(Tail(text)) ELSE text
    IN  IF t1 # <<>> /\ t1[Len(t1)] = ch
        THEN Strip(SubSeq(t1, 1, Len(t1) - 1))
        ELSE t1

RECURSIVE PeelFrom(_, _)
PeelFrom(text, k) ==
    IF k > Len(CI_PEEL) THEN text
    ELSE PeelFrom(PeelOnce(text, CI_PEEL[k]), k + 1)

\* clean_line of create_image.py
ci_clean_line(raw) ==
    IF raw = <<>> THEN <<>>
    ELSE JoinWords(Split(PeelFrom(FirstLine(Strip(raw)), 1)))

\* text.endswith(("|", ".", "!", "..."))
TerminalMarks == {Danda, ".", "!", "ellipsis"}

\* the outcomes of random.sample(EMOJIS, k=2), joined
Sampled == {i \in DOMAIN EMOJIS : i <= MaxSample}

EmojiPairs ==
    {<<EMOJIS[i], EMOJIS[j]>> : i, j \in Sampled} \
        {<<EMOJIS[i], EMOJIS[i]>> : i \in Sampled}

\* any(e in text for e in EMOJIS)
HasEmoji(text) == \E i \in DOMAIN text : text[i] \in Range(EMOJIS)

\* ensure_emoji without its appending branches
ensure_emoji_keeps_text(text, extra) == text

\* ensure_emoji; extra is what random.sample drew
ensure_emoji(text, extra) ==
    IF HasEmoji(text) THEN text
    ELSE IF text # <<>> /\ text[Len(text)] \in TerminalMarks
         THEN text \o <<" ">> \o extra
         ELSE text \o <<Danda, " ">> \o extra

\* what random.sample can draw in ensure_emoji(text); <<>>: it is not called
SampleOutcomes(text) == IF HasEmoji(text) THEN {<<>>} ELSE EmojiPairs

\* word count bounds of generate_deep_krishna_line
CI_MIN_WORDS == 8
CI_MAX_WORDS == 16

----------------------------------------------------------------------------
(* The history files.  A file is missing, unparsable, or holds one JSON    *)
(* value: a list of strings, an object (items: its keys), a bare string    *)
(* (items: the string), or a number or null.                               *)

JsonFile(kind, items) == [kind |-> kind, items |-> items]

MissingFile == JsonFile("missing", <<>>)
CorruptFile == JsonFile("corrupt", <<>>)

\* load_used_texts of generate_text.py
load_used_texts(file) ==
    IF file.kind = "missing" THEN <<>>
    ELSE IF file.kind = "corrupt" THEN <<>>
    ELSE IF file.kind = "list" THEN file.items
    ELSE <<>>

\* set(data) of load_used_lines: the elements of a list, the keys of an
\* object, the characters of a string; a number is not iterable
IterableAsSet(file) ==
    IF file.kind = "string"
    THEN {<<file.items[1][i]>> : i \in DOMAIN file.items[1]}
    ELSE Range(file.items)

\* load_used_lines of create_image.py
load_used_lines(file) ==
    IF file.kind = "missing" THEN Range(STYLE_EXAMPLES)
    ELSE IF file.kind \in {"corrupt", "number"} THEN Range(STYLE_EXAMPLES)
    ELSE IterableAsSet(file) \cup Range(STYLE_EXAMPLES)

\* what open(..., "w") and json.dump can do: succeed, fail to open (the file
\* stays as it was), fail while writing (the file is left truncated)
IoOutcomes == {"ok", "open_failed", "dump_failed"}

FileAfterWrite(file, payload, io) ==
    IF io = "ok" THEN JsonFile("list", payload)
    ELSE IF io = "open_failed" THEN file
    ELSE CorruptFile

\* sorted(list(lines)): the one ordered list of the set (the order itself
\* plays no part: load_used_lines reads the list back as a set)
SortedList(lines) ==
    LET listed[rest \in SUBSET lines] ==
            IF rest = {} THEN <<>>
            ELSE LET first == CHOOSE l \in rest : TRUE
                 IN  <<first>> \o listed[rest \ {first}]
    IN  listed[lines]

\* save_used_texts of generate_text.py: [file after the call, raised]
save_used_texts(file, lines, io) ==
    [file |-> FileAfterWrite(file, lines, io), raised |-> io # "ok"]

\* save_used_lines of create_image.py: the except clause swallows the error
save_used_lines(file, lines, io) ==
    [file |-> FileAfterWrite(file, SortedList(lines), io), raised |-> FALSE]

----------------------------------------------------------------------------
(* What the provider can answer *)

LineA ==
    <<"krishna", " ", "sada", " ", "mere", " ", "saath", " ", "hain", ",",
      " ", "ab", " ", "dar", " ", "nahin", "|", " ", "heart">>
\* LineA with another emoji: the same normalized key
LineA2 ==
    <<"krishna", " ", "sada", " ", "mere", " ", "saath", " ", "hain", ",",
      " ", "ab", " ", "dar", " ", "nahin", "|", " ", "moon">>
\* LineA with a word in front: its normalized key contains LineA's
LineA3 == <<"sab", " ">> \o LineA
LineB ==
    <<"kanha", " ", "sab", " ", "dekh", " ", "rahe", " ", "hain", ",", " ",
      "tab", " ", "bhi", " ", "saath", " ", "hain", "|", " ", "dove">>
LineC ==
    <<"shyam", " ", "ka", " ", "naam", " ", "hi", " ", "har", " ", "dil",
      " ", "ki", " ", "dava", " ", "hai", "|">>
\* LineA as the provider may send it: quoted, with blanks around
LineAQuoted == <<" ", "dq">> \o LineA \o <<"dq", "NL">>
\* no name of Krishna
LineNoName ==
    <<"jo", " ", "hua", " ", "achchha", " ", "hua", ",", " ", "sab", " ",
      "achchha", " ", "ho", " ", "raha", " ", "hai", "|">>
\* a Latin letter
LineLatin == <<"x", " ">> \o LineB
\* three words
LineShort == <<"krishna", " ", "saath", " ", "hain", "|">>
\* Latin only, eight words
LineEnglish ==
    <<"x", " ", "x", " ", "x", " ", "x", " ", "x", " ", "x", " ", "x", " ",
      "x">>
\* nothing but a quote and blanks
LineBlank == <<" ", "dq", " ">>

\* sixteen words, no name of Krishna, no emoji
LineSixteen ==
    <<"jo", " ", "hua", " ", "achchha", " ", "hua", ",", " ", "jo", " ", "ho",
      " ", "raha", " ", "hai", " ", "sab", " ", "achchha", " ", "ho", " ",
      "raha", " ", "hai", ",", " ", "ab", " ", "dar", " ", "nahin", "|">>

\* response.text of generate_text.py
GT_RESPONSES ==
    {LineA, LineA2, LineA3, LineB, LineC, LineAQuoted, LineNoName, LineLatin,
     LineShort, <<" ">>}

\* response.text of create_image.py, when it is not empty
CI_RESPONSES ==
    {LineA, LineA2, LineAQuoted, LineC, LineShort, LineEnglish, LineBlank,
     LineSixteen}

----------------------------------------------------------------------------
(* State *)

VARIABLES
    script,             \* the script this deployment runs, run after run
    used_texts_file,    \* data/used_texts.json
    used_lines_file,    \* state/used_lines.json
    runs,               \* runs started so far
    gt,                 \* the running generate_text.py process
    ci,                 \* the running create_image.py process
    sim,                \* inputs and result of the pure-function checks
    draw,               \* the running draw_centered_text call
    race,               \* two overlapping processes of one generator
    bgm                 \* bgm/, state/used_music.json and pick_bgm

vars ==
    <<script, used_texts_file, used_lines_file, runs, gt, ci, sim, draw, race,
      bgm>>

NoResult == <<"none">>

\* a process of generate_text.py that has not started; rejected notes the
\* candidates the duplicate check turns down in a run (the code keeps none)
GtIdle ==
    [pc |-> "idle", used |-> <<>>, last_good |-> <<>>, attempt |-> 0,
     calls |-> 0, result |-> NoResult, error |-> "none", loaded |-> <<>>,
     accepted |-> NoResult, io |-> "none", rejected |-> {}]

\* a process of create_image.py that has not started
CiIdle ==
    [pc |-> "idle", used |-> {}, seen_this_call |-> {}, attempts |-> 0,
     calls |-> 0, result |-> NoResult, error |-> "none", loaded |-> {},
     accepted |-> NoResult, io |-> "none", rejected |-> {}]

SimIdle ==
    [phase |-> "off", candidate |-> <<>>, used_lines |-> <<>>,
     result |-> FALSE]

\* no call of draw_centered_text is running
DrawIdle ==
    [pc |-> "off", words |-> <<>>, line_height |-> 0, bands |-> <<>>,
     next |-> 1, current |-> <<>>, lines |-> <<>>, font |-> 0,
     total_height |-> 0, anchor |-> 0, y_start |-> 0]

\* no overlapping processes: procs are the processes, saved the processes in
\* the order of their writes to the history file, late those that loaded
\* the history after another process had written it
RaceIdle == [procs |-> <<>>, saved |-> <<>>, late |-> {}]

\* no bgm/ folder under observation
BgmIdle ==
    [pc |-> "off", exists |-> FALSE, dir |-> {}, file |-> MissingFile,
     first |-> MissingFile, calls |-> 0, returned |-> <<>>,
     error |-> "none", io_ok |-> TRUE]

Finished == {"idle", "returned", "raised"}

\* the history files a first run may find: none, an unparsable one, an empty
\* list, the caption of an earlier run, an object, a bare string, a number
InitialFiles ==
    {MissingFile, CorruptFile, JsonFile("list", <<>>),
     JsonFile("list", <<LineA>>), JsonFile("object", <<LineB>>),
     JsonFile("string", <<LineShort>>), JsonFile("number", <<>>)}

\* the two scripts are separate programs with separate history files
Scripts == {"generate_text", "create_image"}

Init ==
    /\ script \in Scripts
    /\ used_texts_file \in
          IF script = "generate_text" THEN InitialFiles ELSE {MissingFile}
    /\ used_lines_file \in
          IF script = "create_image" THEN InitialFiles ELSE {MissingFile}
    /\ runs = 0
    /\ gt = GtIdle
    /\ ci = CiIdle
    /\ sim = SimIdle
    /\ draw = DrawIdle
    /\ race = RaceIdle
    /\ bgm = BgmIdle

----------------------------------------------------------------------------
(* generate_unique_krishna_line of generate_text.py *)

\* configure_gemini and load_used_texts: a new process starts
GtStart ==
    /\ script = "generate_text"
    /\ gt.pc \in Finished
    /\ runs < MaxRuns
    /\ runs' = runs + 1
    /\ \E api_key \in BOOLEAN :
          IF ~api_key
          THEN gt' = [GtIdle EXCEPT !.pc = "raised", !.error = "config"]
          ELSE LET used == load_used_texts(used_texts_file)
               IN  gt' = [GtIdle EXCEPT !.pc = "loop", !.used = used,
                                         !.loaded = used]
    /\ UNCHANGED <<script, used_texts_file, used_lines_file, ci, sim, draw,
                   race, bgm>>

\* generate_candidate_line: the line, or <<>> when it raises on an empty text
generate_candidate_line(text) == gt_clean_line(Strip(text))

GtCandidateRaises(text) == Strip(text) = <<>>

\* the next iteration of the for loop
GtNextIteration == [gt EXCEPT !.attempt = @ + 1, !.calls = @ + 1]

GtInLoop == gt.pc = "loop" /\ gt.attempt < MaxAttempts

\* model.generate_content raises, or the text is empty: continue
GtProviderError ==
    /\ GtInLoop
    /\ \E failed \in BOOLEAN, text \in GT_RESPONSES :
          /\ failed \/ GtCandidateRaises(text)
          /\ gt' = GtNextIteration
    /\ UNCHANGED <<script, used_texts_file, used_lines_file, runs, ci, sim,
                   draw, race, bgm>>

\* is_valid_hindi_line rejects the candidate: continue
GtRejectInvalid ==
    /\ GtInLoop
    /\ \E text \in GT_RESPONSES :
          /\ ~GtCandidateRaises(text)
          /\ ~is_valid_hindi_line(generate_candidate_line(text))
          /\ gt' = GtNextIteration
    /\ UNCHANGED <<script, used_texts_file, used_lines_file, runs, ci, sim,
                   draw, race, bgm>>

\* is_too_similar rejects the candidate: continue
GtRejectDuplicate ==
    /\ GtInLoop
    /\ \E text \in GT_RESPONSES :
          /\ ~GtCandidateRaises(text)
          /\ is_valid_hindi_line(generate_candidate_line(text))
          /\ is_too_similar(generate_candidate_line(text), gt.used)
          /\ gt' = [GtNextIteration EXCEPT
                      !.rejected = @ \cup {generate_candidate_line(text)}]
    /\ UNCHANGED <<script, used_texts_file, used_lines_file, runs, ci, sim,
                   draw, race, bgm>>

\* the candidate is accepted: append, save, return (save may raise)
GtAccept ==
    /\ GtInLoop
    /\ \E text \in GT_RESPONSES, io \in IoOutcomes :
          LET candidate == generate_candidate_line(text)
              used == Append(gt.used, candidate)
              saved == save_used_texts(used_texts_file, used, io)
          IN  /\ ~GtCandidateRaises(text)
              /\ is_valid_hindi_line(candidate)
              /\ ~is_too_similar(candidate, gt.used)
              /\ used_texts_file' = saved.file
              /\ gt' = [GtNextIteration EXCEPT
                          !.used = used,
                          !.accepted = candidate,
                          !.io = io,
                          !.pc = IF saved.raised THEN "raised" ELSE "returned",
                          !.error = IF saved.raised THEN "storage" ELSE "none",
                          !.result = IF saved.raised THEN NoResult
                                     ELSE candidate]
    /\ UNCHANGED <<script, used_lines_file, runs, ci, sim, draw, race, bgm>>

\* the code after the loop, run without waiting for the loop to end
GtExhausted_early ==
    /\ gt.pc = "loop"
    /\ gt' = IF gt.last_good # <<>>
             THEN [gt EXCEPT !.pc = "returned", !.result = gt.last_good]
             ELSE [gt EXCEPT !.pc = "raised", !.error = "exhausted"]
    /\ UNCHANGED <<script, used_texts_file, used_lines_file, runs, ci, sim,
                   draw, race, bgm>>

\* after the loop: last_good if it is set, else RuntimeError
GtExhausted ==
    /\ gt.pc = "loop" /\ gt.attempt >= MaxAttempts
    /\ gt' = IF gt.last_good # <<>>
             THEN [gt EXCEPT !.pc = "returned", !.result = gt.last_good]
             ELSE [gt EXCEPT !.pc = "raised", !.error = "exhausted"]
    /\ UNCHANGED <<script, used_texts_file, used_lines_file, runs, ci, sim,
                   draw, race, bgm>>

----------------------------------------------------------------------------
(* main and generate_deep_krishna_line of create_image.py *)

\* setup_gemini and load_used_lines: a new process starts
CiStart ==
    /\ script = "create_image"
    /\ ci.pc \in Finished
    /\ runs < MaxRuns
    /\ runs' = runs + 1
    /\ \E api_key \in BOOLEAN :
          IF ~api_key
          THEN ci' = [CiIdle EXCEPT !.pc = "raised", !.error = "config"]
          ELSE LET used == load_used_lines(used_lines_file)
               IN  ci' = [CiIdle EXCEPT !.pc = "loop", !.used = used,
                                         !.loaded = used]
    /\ UNCHANGED <<script, used_texts_file, used_lines_file, gt, sim, draw,
                   race, bgm>>

CiInLoop == ci.pc = "loop" /\ ci.attempts < MaxAttempts

\* attempts += 1, then model.generate_content is called
CiNextIteration == [ci EXCEPT !.attempts = @ + 1, !.calls = @ + 1]

\* the quality filters without the word count
CiPassesFilters_any_length(line) ==
    /\ line # <<>>
    /\ is_hindi(line)

\* the quality filters: empty after cleaning, not Hindi, word count
CiPassesFilters(line) ==
    /\ line # <<>>
    /\ is_hindi(line)
    /\ CI_MIN_WORDS <= Len(Split(line))
    /\ Len(Split(line)) <= CI_MAX_WORDS

\* the exception path with attempts += 1 placed after the call
CiProviderError_not_counted ==
    /\ CiInLoop
    /\ ci' = [ci EXCEPT !.calls = @ + 1]
    /\ UNCHANGED <<script, used_texts_file, used_lines_file, runs, gt, sim,
                   draw, race, bgm>>

\* model.generate_content raises: continue
CiProviderError ==
    /\ CiInLoop
    /\ ci' = CiNextIteration
    /\ UNCHANGED <<script, used_texts_file, used_lines_file, runs, gt, sim,
                   draw, race, bgm>>

\* response.text is None or empty: continue
CiEmptyResponse ==
    /\ CiInLoop
    /\ \E raw_text \in {<<>>} :
          /\ raw_text = <<>>
          /\ ci' = CiNextIteration
    /\ UNCHANGED <<script, used_texts_file, used_lines_file, runs, gt, sim,
                   draw, race, bgm>>

\* clean_line(raw_text) of every response
CiCleaned == {ci_clean_line(raw_text) : raw_text \in CI_RESPONSES}

\* the cleaned lines a quality filter rejects
CiFiltered == {line \in CiCleaned : ~CiPassesFilters(line)}

\* ensure_emoji(line) of every cleaned line that passes the filters, for
\* every draw of random.sample
CiCandidates ==
    UNION { { ensure_emoji(line, extra) : extra \in SampleOutcomes(line) } :
            line \in CiCleaned \ CiFiltered }

\* a quality filter rejects the line: continue
CiRejectInvalid ==
    /\ CiInLoop
    /\ \E line \in CiFiltered :
          ci' = CiNextIteration
    /\ UNCHANGED <<script, used_texts_file, used_lines_file, runs, gt, sim,
                   draw, race, bgm>>

\* the line, emoji added, is in used or seen_this_call: continue
CiRejectDuplicate ==
    /\ CiInLoop
    /\ \E line \in CiCandidates :
          /\ line \in ci.used \/ line \in ci.seen_this_call
          /\ ci' = [CiNextIteration EXCEPT !.rejected = @ \cup {line}]
    /\ UNCHANGED <<script, used_texts_file, used_lines_file, runs, gt, sim,
                   draw, race, bgm>>

\* the accept branch without used.add(line)
CiAccepted_not_added(line, io) ==
    [CiNextIteration EXCEPT
        !.seen_this_call = @ \cup {line},
        !.accepted = line,
        !.io = io,
        !.pc = "returned",
        !.result = line]

\* the process after the accept branch has run
CiAccepted(line, io) ==
    [CiNextIteration EXCEPT
        !.seen_this_call = @ \cup {line},
        !.used = @ \cup {line},
        !.accepted = line,
        !.io = io,
        !.pc = "returned",
        !.result = line]

\* the line is accepted: add, save, return
CiAccept ==
    /\ CiInLoop
    /\ \E line \in CiCandidates :
          /\ ~(line \in ci.used \/ line \in ci.seen_this_call)
          /\ \E io \in IoOutcomes :
                /\ ci' = CiAccepted(line, io)
                /\ used_lines_file' =
                      save_used_lines(used_lines_file, ci'.used, io).file
    /\ UNCHANGED <<script, used_texts_file, runs, gt, sim, draw, race, bgm>>

\* the process after the fallback branch has run
CiFellBack(fallback, io) ==
    [ci EXCEPT !.used = @ \cup {fallback},
               !.io = io,
               !.error = "fallback",
               !.pc = "returned",
               !.result = fallback]

\* ensure_emoji(clean_line(random.choice(STYLE_EXAMPLES))): every string
\* the random pick and the random emoji sample can produce
FallbackOutcomes ==
    UNION { { ensure_emoji(ci_clean_line(STYLE_EXAMPLES[k]), extra) :
                extra \in SampleOutcomes(ci_clean_line(STYLE_EXAMPLES[k])) } :
            k \in DOMAIN STYLE_EXAMPLES }

\* after the loop: a random style example, cleaned, emoji ensured
CiFallback ==
    /\ ci.pc = "loop" /\ ci.attempts >= MaxAttempts
    /\ \E fallback \in FallbackOutcomes :
          \E io \in IoOutcomes :
             /\ ci' = CiFellBack(fallback, io)
             /\ used_lines_file' =
                   save_used_lines(used_lines_file, ci'.used, io).file
    /\ UNCHANGED <<script, used_texts_file, runs, gt, sim, draw, race, bgm>>

----------------------------------------------------------------------------
(* The two generators, run after run *)

Next ==
    \/ GtStart
    \/ GtProviderError
    \/ GtRejectInvalid
    \/ GtRejectDuplicate
    \/ GtAccept
    \/ GtExhausted
    \/ CiStart
    \/ CiProviderError
    \/ CiEmptyResponse
    \/ CiRejectInvalid
    \/ CiRejectDuplicate
    \/ CiAccept
    \/ CiFallback

Spec == Init /\ [][Next]_vars

\* one pass through the loop of generate_unique_krishna_line, or its end
GtRun ==
    \/ GtProviderError
    \/ GtRejectInvalid
    \/ GtRejectDuplicate
    \/ GtAccept
    \/ GtExhausted

\* one pass through the loop of generate_deep_krishna_line, or its end
CiRun ==
    \/ CiProviderError
    \/ CiEmptyResponse
    \/ CiRejectInvalid
    \/ CiRejectDuplicate
    \/ CiAccept
    \/ CiFallback


----------------------------------------------------------------------------
(* is_too_similar on every candidate and history within the bounds *)

\* the glyphs of the inputs: two words, a punctuation mark and the dotted
\* capital
SimGlyphs == {"krishna", "hai", "!", DottedCapital}

RECURSIVE TotalLen(_)
TotalLen(lines) ==
    IF lines = <<>> THEN 0 ELSE Len(Head(lines)) + TotalLen(Tail(lines))

InitSim ==
    /\ script = "generate_text"
    /\ used_texts_file = MissingFile
    /\ used_lines_file = MissingFile
    /\ runs = 0
    /\ gt = GtIdle
    /\ ci = CiIdle
    /\ sim = [SimIdle EXCEPT !.phase = "input"]
    /\ draw = DrawIdle
    /\ race = RaceIdle
    /\ bgm = BgmIdle

\* one more glyph of the string being written
SimGlyph ==
    /\ sim.phase = "input"
    /\ Len(sim.candidate) + TotalLen(sim.used_lines) < MaxGlyphs
    /\ \E g \in SimGlyphs :
          sim' = [sim EXCEPT !.candidate = Append(@, g)]
    /\ UNCHANGED <<script, used_texts_file, used_lines_file, runs, gt, ci,
                   draw, race, bgm>>

\* the string written becomes the next entry of the history
SimEntry ==
    /\ sim.phase = "input"
    /\ Len(sim.used_lines) < MaxHist
    /\ sim' = [sim EXCEPT !.used_lines = Append(@, sim.candidate),
                          !.candidate = <<>>]
    /\ UNCHANGED <<script, used_texts_file, used_lines_file, runs, gt, ci,
                   draw, race, bgm>>

\* is_too_similar(candidate, used_lines) is called
SimCheck ==
    /\ sim.phase = "input"
    /\ sim' = [sim EXCEPT
                 !.phase = "checked",
                 !.result = is_too_similar(sim.candidate, sim.used_lines)]
    /\ UNCHANGED <<script, used_texts_file, used_lines_file, runs, gt, ci,
                   draw, race, bgm>>

NextSim == SimGlyph \/ SimEntry \/ SimCheck

SpecSim == InitSim /\ [][NextSim]_vars

----------------------------------------------------------------------------
(* draw_centered_text of create_image.py *)

\* the longest caption drawn, in words
MaxWords == 3

\* create_canvas_with_image: size=(1080, 1920)
CanvasWidth == 1080
CanvasHeight == 1920

\* load_devanagari_font(size=52), a font file being installed
FontSize == 52

\* int(cw * 0.8)
max_width == (CanvasWidth * 8) \div 10

\* what draw.textbbox measures for one word at that size, in pixels: a short
\* word, a long one, and one wider than max_width
WordWidths == {300, 500, 900}

\* what a blank between two words adds to the measure
SpaceWidth == 14

\* the measured height of the sample word plus 10, the font decides which
LineHeights == {62, 75}

\* mean luminance of a band of the image: dark or light
Luminances == {40, 200}

\* the percentage in int(ch * 0.70 - total_height / 2)
TextCentre == 70

RECURSIVE SumOf(_)
SumOf(ws) == IF ws = <<>> THEN 0 ELSE Head(ws) + SumOf(Tail(ws))

\* text_size(" ".join(ws)): right edge minus left edge of the bounding box
LineWidth(ws) ==
    IF ws = <<>> THEN 0 ELSE SumOf(ws) + (Len(ws) - 1) * SpaceWidth

\* the caption, the font metrics and the image a call may meet
InitDraw ==
    /\ script = "create_image"
    /\ used_texts_file = MissingFile
    /\ used_lines_file = MissingFile
    /\ runs = 0
    /\ gt = GtIdle
    /\ ci = CiIdle
    /\ sim = SimIdle
    /\ race = RaceIdle
    /\ bgm = BgmIdle
    /\ \E h \in LineHeights :
          \E top, middle, bottom \in Luminances :
             draw = [DrawIdle EXCEPT !.pc = "input",
                                     !.line_height = h,
                                     !.bands = <<top, middle, bottom>>]

\* one more word of the caption to draw
DrawWord ==
    /\ draw.pc = "input"
    /\ Len(draw.words) < MaxWords
    /\ \E w \in WordWidths :
          draw' = [draw EXCEPT !.words = Append(@, w)]
    /\ UNCHANGED <<script, used_texts_file, used_lines_file, runs, gt, ci,
                   sim, race, bgm>>

\* draw_centered_text is called: font, max_width, words, empty lists
DrawCall ==
    /\ draw.pc = "input"
    /\ draw' = [draw EXCEPT !.pc = "wrap", !.font = FontSize, !.next = 1,
                            !.current = <<>>, !.lines = <<>>]
    /\ UNCHANGED <<script, used_texts_file, used_lines_file, runs, gt, ci,
                   sim, race, bgm>>

\* one pass of "for w in words"
WrapWord ==
    /\ draw.pc = "wrap"
    /\ draw.next <= Len(draw.words)
    /\ LET w == draw.words[draw.next]
           test == Append(draw.current, w)
       IN  IF LineWidth(test) <= max_width
           THEN draw' = [draw EXCEPT !.current = test, !.next = @ + 1]
           ELSE draw' = [draw EXCEPT
                           !.lines = IF draw.current # <<>>
                                     THEN Append(@, draw.current)
                                     ELSE @,
                           !.current = <<w>>,
                           !.next = @ + 1]
    /\ UNCHANGED <<script, used_texts_file, used_lines_file, runs, gt, ci,
                   sim, race, bgm>>

\* the process once the loop is over: the last line, the block height and
\* the place of the block; the box and the lines are drawn there
Placed(lines) ==
    [draw EXCEPT
        !.pc = "done",
        !.lines = lines,
        !.total_height = draw.line_height * Len(lines),
        !.anchor = TextCentre,
        !.y_start = (2 * ((CanvasHeight * TextCentre) \div 100)
                     - draw.line_height * Len(lines)) \div 2]

\* after the loop, without "if current: lines.append(...)"
WrapEnd_without_last_line ==
    /\ draw.pc = "wrap"
    /\ draw.next > Len(draw.words)
    /\ draw' = Placed(draw.lines)
    /\ UNCHANGED <<script, used_texts_file, used_lines_file, runs, gt, ci,
                   sim, race, bgm>>

\* after the loop
WrapEnd ==
    /\ draw.pc = "wrap"
    /\ draw.next > Len(draw.words)
    /\ draw' = Placed(IF draw.current # <<>>
                      THEN Append(draw.lines, draw.current)
                      ELSE draw.lines)
    /\ UNCHANGED <<script, used_texts_file, used_lines_file, runs, gt, ci,
                   sim, race, bgm>>

NextDraw == DrawWord \/ DrawCall \/ WrapWord \/ WrapEnd

SpecDraw == InitDraw /\ [][NextDraw]_vars

----------------------------------------------------------------------------
(* Two overlapping processes of one generator on one history file *)

\* two invocations of the same script that overlap in time
Procs == {1, 2}

\* the history files the two processes may find
RaceFiles == {MissingFile, JsonFile("list", <<>>), JsonFile("list", <<LineA>>)}

InitRace ==
    /\ script \in Scripts
    /\ used_texts_file \in
          IF script = "generate_text" THEN RaceFiles ELSE {MissingFile}
    /\ used_lines_file \in
          IF script = "create_image" THEN RaceFiles ELSE {MissingFile}
    /\ runs = 0
    /\ gt = GtIdle
    /\ ci = CiIdle
    /\ sim = SimIdle
    /\ draw = DrawIdle
    /\ bgm = BgmIdle
    /\ race = [procs |-> [p \in Procs |-> IF script = "generate_text"
                                          THEN GtIdle ELSE CiIdle],
               saved |-> <<>>,
               late |-> {}]

\* the processes that load now load after a write of another process
LateWith(p) == IF race.saved # <<>> THEN race.late \cup {p} ELSE race.late

\* the history a starting process reads, without reading the file
RaceGtLoaded_nothing(file) == <<>>

\* load_used_texts() of a starting process
RaceGtLoaded(file) == load_used_texts(file)

\* configure_gemini and load_used_texts of process p
RaceGtStart(p) ==
    /\ script = "generate_text"
    /\ race.procs[p].pc = "idle"
    /\ \E api_key \in BOOLEAN :
          IF ~api_key
          THEN race' = [race EXCEPT !.procs[p] =
                           [GtIdle EXCEPT !.pc = "raised", !.error = "config"]]
          ELSE LET used == RaceGtLoaded(used_texts_file)
               IN  race' = [race EXCEPT
                              !.procs[p] = [GtIdle EXCEPT !.pc = "loop",
                                                          !.used = used,
                                                          !.loaded = used],
                              !.late = LateWith(p)]
    /\ UNCHANGED <<script, used_texts_file, used_lines_file, runs, gt, ci,
                   sim, draw, bgm>>

RaceInLoop(p) ==
    /\ race.procs[p].pc = "loop"
    /\ IF script = "generate_text"
       THEN race.procs[p].attempt < MaxAttempts
       ELSE race.procs[p].attempts < MaxAttempts

\* the candidates of generate_text.py that pass is_valid_hindi_line
RaceGtCandidates ==
    {generate_candidate_line(text) :
        text \in {t \in GT_RESPONSES :
                    /\ ~GtCandidateRaises(t)
                    /\ is_valid_hindi_line(generate_candidate_line(t))}}

\* an attempt of process p fails: provider error, empty text, invalid line
\* or duplicate; the loop continues
RaceGtFail(p) ==
    /\ script = "generate_text"
    /\ RaceInLoop(p)
    /\ \E failed \in BOOLEAN, text \in GT_RESPONSES :
          /\ \/ failed
             \/ GtCandidateRaises(text)
             \/ ~is_valid_hindi_line(generate_candidate_line(text))
             \/ is_too_similar(generate_candidate_line(text),
                               race.procs[p].used)
          /\ race' = [race EXCEPT !.procs[p].attempt = @ + 1,
                                  !.procs[p].calls = @ + 1]
    /\ UNCHANGED <<script, used_texts_file, used_lines_file, runs, gt, ci,
                   sim, draw, bgm>>

\* the candidate passes the validity and the duplicate check of process p
RaceGtAcceptable(p, candidate) ==
    /\ candidate \in RaceGtCandidates
    /\ ~is_too_similar(candidate, race.procs[p].used)

\* process p accepts the candidate: append, save, return (save may raise)
RaceGtAcceptLine(p, candidate, io) ==
    /\ script = "generate_text"
    /\ RaceInLoop(p)
    /\ RaceGtAcceptable(p, candidate)
    /\ LET used == Append(race.procs[p].used, candidate)
           saved == save_used_texts(used_texts_file, used, io)
       IN  /\ used_texts_file' = saved.file
           /\ race' = [race EXCEPT
                         !.procs[p] =
                            [@ EXCEPT
                               !.attempt = @ + 1,
                               !.calls = @ + 1,
                               !.used = used,
                               !.accepted = candidate,
                               !.io = io,
                               !.pc = IF saved.raised THEN "raised"
                                      ELSE "returned",
                               !.error = IF saved.raised THEN "storage"
                                         ELSE "none",
                               !.result = IF saved.raised THEN NoResult
                                          ELSE candidate],
                         !.saved = Append(@, p)]
    /\ UNCHANGED <<script, used_lines_file, runs, gt, ci, sim, draw, bgm>>

RaceGtAccept(p) ==
    \E candidate \in RaceGtCandidates, io \in IoOutcomes :
        RaceGtAcceptLine(p, candidate, io)

\* process p leaves the loop without a line: RuntimeError
RaceGtExhausted(p) ==
    /\ script = "generate_text"
    /\ race.procs[p].pc = "loop"
    /\ race.procs[p].attempt >= MaxAttempts
    /\ race' = [race EXCEPT !.procs[p].pc = "raised",
                            !.procs[p].error = "exhausted"]
    /\ UNCHANGED <<script, used_texts_file, used_lines_file, runs, gt, ci,
                   sim, draw, bgm>>

\* setup_gemini and load_used_lines of process p
RaceCiStart(p) ==
    /\ script = "create_image"
    /\ race.procs[p].pc = "idle"
    /\ \E api_key \in BOOLEAN :
          IF ~api_key
          THEN race' = [race EXCEPT !.procs[p] =
                           [CiIdle EXCEPT !.pc = "raised", !.error = "config"]]
          ELSE LET used == load_used_lines(used_lines_file)
               IN  race' = [race EXCEPT
                              !.procs[p] = [CiIdle EXCEPT !.pc = "loop",
                                                          !.used = used,
                                                          !.loaded = used],
                              !.late = LateWith(p)]
    /\ UNCHANGED <<script, used_texts_file, used_lines_file, runs, gt, ci,
                   sim, draw, bgm>>

\* an attempt of process p fails: provider error, empty response, a quality
\* filter or the duplicate check; the loop continues
RaceCiFail(p) ==
    /\ script = "create_image"
    /\ RaceInLoop(p)
    /\ \E failed \in BOOLEAN, line \in CiFiltered \cup CiCandidates :
          /\ \/ failed
             \/ line \in CiFiltered
             \/ line \in race.procs[p].used
             \/ line \in race.procs[p].seen_this_call
          /\ race' = [race EXCEPT !.procs[p].attempts = @ + 1,
                                  !.procs[p].calls = @ + 1]
    /\ UNCHANGED <<script, used_texts_file, used_lines_file, runs, gt, ci,
                   sim, draw, bgm>>

\* the line passes the filters and the duplicate check of process p
RaceCiAcceptable(p, line) ==
    /\ line \in CiCandidates
    /\ ~(line \in race.procs[p].used \/ line \in race.procs[p].seen_this_call)

\* process p accepts the line: add, save, return
RaceCiAcceptLine(p, line, io) ==
    /\ script = "create_image"
    /\ RaceInLoop(p)
    /\ RaceCiAcceptable(p, line)
    /\ LET used == race.procs[p].used \cup {line}
       IN  /\ used_lines_file' =
                 save_used_lines(used_lines_file, used, io).file
           /\ race' = [race EXCEPT
                         !.procs[p] =
                            [@ EXCEPT
                               !.attempts = @ + 1,
                               !.calls = @ + 1,
                               !.seen_this_call = @ \cup {line},
                               !.used = used,
                               !.accepted = line,
                               !.io = io,
                               !.pc = "returned",
                               !.result = line],
                         !.saved = Append(@, p)]
    /\ UNCHANGED <<script, used_texts_file, runs, gt, ci, sim, draw, bgm>>

RaceCiAccept(p) ==
    \E line \in CiCandidates, io \in IoOutcomes :
        RaceCiAcceptLine(p, line, io)

\* process p leaves the loop without a line: a style example, added, saved
RaceCiFallback(p) ==
    /\ script = "create_image"
    /\ race.procs[p].pc = "loop"
    /\ race.procs[p].attempts >= MaxAttempts
    /\ \E fallback \in FallbackOutcomes, io \in IoOutcomes :
          LET used == race.procs[p].used \cup {fallback}
          IN  /\ used_lines_file' =
                    save_used_lines(used_lines_file, used, io).file
              /\ race' = [race EXCEPT
                            !.procs[p] = [@ EXCEPT !.used = used,
                                                   !.io = io,
                                                   !.error = "fallback",
                                                   !.pc = "returned",
                                                   !.result = fallback],
                            !.saved = Append(@, p)]
    /\ UNCHANGED <<script, used_texts_file, runs, gt, ci, sim, draw, bgm>>

NextRace ==
    \E p \in Procs :
        \/ RaceGtStart(p)
        \/ RaceGtFail(p)
        \/ RaceGtAccept(p)
        \/ RaceGtExhausted(p)
        \/ RaceCiStart(p)
        \/ RaceCiFail(p)
        \/ RaceCiAccept(p)
        \/ RaceCiFallback(p)

SpecRace == InitRace /\ [][NextRace]_vars

----------------------------------------------------------------------------
(* pick_bgm of create_video.py *)

\* calls of pick_bgm in a behaviour
MaxPicks == 4

\* a file of bgm/: its name is stem + suffix
File(stem, suffix) == [stem |-> stem, suffix |-> suffix]

\* what bgm/ may hold: three tracks and a file that is no track
BgmEntries ==
    {File("a", ".mp3"), File("b", ".wav"), File("C", ".M4A"),
     File("notes", ".txt")}

\* a name state/used_music.json may hold of a track that is gone
StaleName == File("old", ".mp3")

\* p.suffix.lower()
LowerSuffix(suffix) == IF suffix = ".M4A" THEN ".m4a" ELSE suffix

\* the tracks of bgm/
Tracks(dir) ==
    {p \in dir : LowerSuffix(p.suffix) \in {".mp3", ".wav", ".m4a"}}

\* state/used_music.json as the first call may find it
BgmFiles ==
    {MissingFile, CorruptFile, JsonFile("list", <<>>),
     JsonFile("list", <<File("a", ".mp3")>>),
     JsonFile("list", <<File("a", ".mp3"), File("a", ".mp3")>>),
     JsonFile("list", <<StaleName>>),
     JsonFile("object", <<File("a", ".mp3")>>),
     JsonFile("number", <<>>)}

\* load_used_music: whatever json.load returns, [] without a readable file
load_used_music(file) ==
    IF file.kind \in {"missing", "corrupt"} THEN JsonFile("list", <<>>)
    ELSE file

\* the tracks pick_bgm may choose, were the history ignored
Unused_ignoring_used(tracks, used) == tracks

\* [p for p in tracks if p.name not in used]
Unused(tracks, used) == {p \in tracks : p \notin Range(used.items)}

NoTrack == File("", "")

PickOutcome(chosen, file, error) ==
    [chosen |-> chosen, file |-> file, error |-> error]

\* every outcome of one call of pick_bgm: the track returned (NoTrack when
\* the call raises), the file after the call, the error
pick_bgm(exists, dir, file) ==
    IF ~exists THEN {PickOutcome(NoTrack, file, "no_folder")}
    ELSE IF Tracks(dir) = {} THEN {PickOutcome(NoTrack, file, "no_tracks")}
    ELSE LET tracks == Tracks(dir)
             loaded == load_used_music(file)
         IN  IF loaded.kind = "number"
             THEN {PickOutcome(NoTrack, file, "type")}
             ELSE LET reset == Unused(tracks, loaded) = {}
                      used == IF reset THEN JsonFile("list", <<>>) ELSE loaded
                      unused == IF reset THEN tracks
                                ELSE Unused(tracks, loaded)
                  IN  IF used.kind # "list"
                      THEN {PickOutcome(NoTrack, file, "attribute")}
                      ELSE { PickOutcome(
                                IF io = "ok" THEN chosen ELSE NoTrack,
                                FileAfterWrite(file,
                                               Append(used.items, chosen), io),
                                IF io = "ok" THEN "none" ELSE "storage") :
                             chosen \in unused, io \in IoOutcomes }

\* bgm/ and state/used_music.json before the first call
InitBgm ==
    /\ script = "generate_text"
    /\ used_texts_file = MissingFile
    /\ used_lines_file = MissingFile
    /\ runs = 0
    /\ gt = GtIdle
    /\ ci = CiIdle
    /\ sim = SimIdle
    /\ draw = DrawIdle
    /\ race = RaceIdle
    /\ \E exists \in BOOLEAN, dir \in SUBSET BgmEntries, file \in BgmFiles :
          /\ ~exists => dir = {}
          /\ bgm = [BgmIdle EXCEPT !.pc = "ready", !.exists = exists,
                                   !.dir = dir, !.file = file,
                                   !.first = file]

\* one call of pick_bgm
PickBgm ==
    /\ bgm.pc = "ready"
    /\ bgm.calls < MaxPicks
    /\ \E out \in pick_bgm(bgm.exists, bgm.dir, bgm.file) :
          bgm' = [bgm EXCEPT
                    !.calls = @ + 1,
                    !.file = out.file,
                    !.error = out.error,
                    !.io_ok = @ /\ out.error # "storage",
                    !.returned = IF out.error = "none"
                                 THEN Append(@, out.chosen) ELSE @]
    /\ UNCHANGED <<script, used_texts_file, used_lines_file, runs, gt, ci,
                   sim, draw, race>>

NextBgm == PickBgm

SpecBgm == InitBgm /\ [][NextBgm]_vars

----------------------------------------------------------------------------
(* Properties *)

\* the history cap of the specification (historyCap); the code has none
HistoryCap == 2

Persisted(file) == IF file.kind = "list" THEN file.items ELSE <<>>

\* no two entries of a list have the same normalized key
DistinctKeys(lines) ==
    \A i, j \in DOMAIN lines :
        i # j => normalize_for_compare(lines[i]) #
                 normalize_for_compare(lines[j])

\* no two lines of a set have the same normalized key
DistinctKeysIn(lines) ==
    \A l1, l2 \in lines :
        l1 # l2 => normalize_for_compare(l1) # normalize_for_compare(l2)

\* C1: with the API key configured, generate_unique_krishna_line never
\* raises "no caption available": a run whose attempts all fail still ends
\* by returning a caption.
C1_NoCaptionNeverRaised ==
    gt.error # "config" /\ gt.pc \in {"returned", "raised"}
        /\ gt.accepted = NoResult
    => gt.pc = "returned" /\ gt.result # NoResult

\* C2: when all attempts of generate_deep_krishna_line fail, it returns a
\* non-empty string that is one of STYLE_EXAMPLES, whichever example
\* random.choice picks.
C2_FallbackIsStyleExample ==
    ci.pc = "returned" /\ ci.error = "fallback"
    => ci.result # <<>> /\ ci.result \in Range(STYLE_EXAMPLES)

\* C3: from a persisted history with pairwise distinct normalized keys, no
\* run of either generator leaves two entries with equal normalized key in
\* the history, in memory or on file.
C3_HistoryKeysDistinct ==
    /\ DistinctKeys(gt.used)
    /\ DistinctKeys(Persisted(used_texts_file))
    /\ DistinctKeysIn(ci.used)
    /\ DistinctKeys(Persisted(used_lines_file))

\* C4: when the normalized candidate equals the normalized form of some
\* history entry, is_too_similar returns True, also when that form is empty.
C4_EqualKeyIsDuplicate ==
    sim.phase = "checked"
        /\ (\E i \in DOMAIN sim.used_lines :
               normalize_for_compare(sim.used_lines[i]) =
               normalize_for_compare(sim.candidate))
    => sim.result

\* a candidate of punctuation only meets an entry that normalizes to the
\* same empty key
C4_Witness ==
    /\ sim.phase = "checked"
    /\ sim.candidate # <<>>
    /\ normalize_for_compare(sim.candidate) = <<>>
    /\ \E i \in DOMAIN sim.used_lines :
          /\ sim.used_lines[i] # sim.candidate
          /\ normalize_for_compare(sim.used_lines[i]) = <<>>
    /\ sim.result

\* the normalized candidate is contained in, or contains, the normalized
\* form of entry i
Contained(i) ==
    LET cand_norm == normalize_for_compare(sim.candidate)
        old_norm == normalize_for_compare(sim.used_lines[i])
    IN  IsSubstr(cand_norm, old_norm) \/ IsSubstr(old_norm, cand_norm)

\* C5 as claimed: is_too_similar returns True whenever the normalized
\* candidate is a substring of, or contains, the normalized form of some
\* entry, whatever that form is.
C5_AnyContainmentIsDuplicate ==
    sim.phase = "checked" /\ (\E i \in DOMAIN sim.used_lines : Contained(i))
    => sim.result

\* C5 as amended: is_too_similar returns True whenever the normalized
\* candidate is a substring of, or contains, the non-empty normalized form
\* of some entry, whatever the other entries are.
C5_NonEmptyContainmentIsDuplicate ==
    sim.phase = "checked"
        /\ (\E i \in DOMAIN sim.used_lines :
               /\ normalize_for_compare(sim.used_lines[i]) # <<>>
               /\ Contained(i))
    => sim.result

\* the second of two entries properly contains the candidate; the first is
\* unrelated to it
C5_Witness ==
    /\ sim.phase = "checked"
    /\ Len(sim.used_lines) = 2
    /\ normalize_for_compare(sim.candidate) # <<>>
    /\ normalize_for_compare(sim.used_lines[1]) # <<>>
    /\ ~Contained(1)
    /\ Contained(2)
    /\ normalize_for_compare(sim.used_lines[2]) #
       normalize_for_compare(sim.candidate)
    /\ sim.result

\* C6: when a candidate passes validation and the duplicate check the run
\* stops there: the string returned is the string added to the history, the
\* file, once the write of that step has succeeded, contains it, the history
\* has one entry more than when it was loaded (one entry, from an empty
\* history), and no further provider call is made.
C6_AcceptReturnsWhatItStored ==
    /\ gt.pc = "returned" /\ gt.accepted # NoResult
       => /\ gt.result = gt.accepted
          /\ gt.used = Append(gt.loaded, gt.result)
          /\ gt.loaded = <<>> => Len(gt.used) = 1
          /\ gt.io = "ok"
          /\ used_texts_file = JsonFile("list", gt.used)
          /\ gt.calls = gt.attempt
          /\ ~ENABLED GtRun
    /\ ci.pc = "returned" /\ ci.accepted # NoResult
       => /\ ci.result = ci.accepted
          /\ ci.result \in ci.used
          /\ ci.result \notin ci.loaded
          /\ Cardinality(ci.used) = Cardinality(ci.loaded) + 1
          /\ ci.io = "ok"
             => /\ used_lines_file.kind = "list"
                /\ Range(used_lines_file.items) = ci.used
          /\ ci.calls = ci.attempts
          /\ ~ENABLED CiRun

\* create_image.py has accepted a line on its second attempt and written
\* the file
C6_Witness ==
    /\ ci.pc = "returned"
    /\ ci.accepted # NoResult
    /\ ci.io = "ok"
    /\ ci.attempts = 2
    /\ ci.result \in Range(Persisted(used_lines_file))

\* C7: the provider is called at most max_attempts times per run and the
\* run ends: while a run is in its loop a step is always possible, and every
\* step either ends the run or uses up one of the max_attempts attempts.  A
\* provider exception uses up exactly one attempt, does not reach the
\* caller, and the next request follows while attempts remain.
C7_AttemptsBounded ==
    /\ [](gt.calls <= MaxAttempts /\ ci.calls <= MaxAttempts)
    /\ [](gt.attempt <= MaxAttempts /\ ci.attempts <= MaxAttempts)
    /\ [][GtProviderError
          => /\ gt'.attempt = gt.attempt + 1
             /\ gt'.calls = gt.calls + 1
             /\ gt'.pc = "loop"]_vars
    /\ [][CiProviderError
          => /\ ci'.attempts = ci.attempts + 1
             /\ ci'.calls = ci.calls + 1
             /\ ci'.pc = "loop"]_vars
    /\ [](gt.pc = "loop" /\ gt.attempt < MaxAttempts
          => ENABLED GtProviderError)
    /\ [](ci.pc = "loop" /\ ci.attempts < MaxAttempts
          => ENABLED CiProviderError)
    /\ [](gt.pc = "loop" => ENABLED GtRun)
    /\ [](ci.pc = "loop" => ENABLED CiRun)
    /\ [][gt.pc = "loop" /\ gt' # gt
          => \/ gt'.pc \in {"returned", "raised"}
             \/ gt'.pc = "loop" /\ gt'.attempt = gt.attempt + 1]_vars
    /\ [][ci.pc = "loop" /\ ci' # ci
          => \/ ci'.pc \in {"returned", "raised"}
             \/ ci'.pc = "loop" /\ ci'.attempts = ci.attempts + 1]_vars

\* every attempt of a run of create_image.py has been made and the run is
\* over
C7_Witness ==
    /\ ci.pc = "returned"
    /\ ci.error = "fallback"
    /\ ci.calls = MaxAttempts

\* C8: the history never holds more than the cap.
C8_HistoryWithinCap ==
    /\ Len(gt.used) <= HistoryCap
    /\ Len(Persisted(used_texts_file)) <= HistoryCap

\* C9: from a missing or unparsable file, or one that holds no list,
\* load_used_texts returns the empty history and load_used_lines exactly
\* STYLE_EXAMPLES.
C9_BadFileLoadsNothing ==
    /\ gt.pc = "loop" /\ gt.attempt = 0 /\ used_texts_file.kind # "list"
       => gt.used = <<>>
    /\ ci.pc = "loop" /\ ci.attempts = 0 /\ used_lines_file.kind # "list"
       => ci.used = Range(STYLE_EXAMPLES)

\* C10: when the write of the history file fails as a candidate is
\* accepted, no exception reaches the caller and the accepted caption is
\* returned.
C10_WriteFailureAbsorbed ==
    /\ gt.io \in {"open_failed", "dump_failed"}
       => gt.pc = "returned" /\ gt.result = gt.accepted
    /\ ci.accepted # NoResult /\ ci.io \in {"open_failed", "dump_failed"}
       => ci.pc = "returned" /\ ci.result = ci.accepted

\* C11: the caption generate_deep_krishna_line returns is never one of the
\* strings that were in the used set when the call began.
C11_ReturnedLineIsNew ==
    ci.pc = "returned" => ci.result \notin ci.loaded

\* re.search of the names of Krishna in a line
HasKrishnaName(line) == \E i \in DOMAIN line : line[i] \in KrishnaNames

\* C12: every caption either generator returns through its accept path
\* holds a name of Krishna.
C12_AcceptedNamesKrishna ==
    /\ gt.pc = "returned" /\ gt.accepted # NoResult
       => HasKrishnaName(gt.result)
    /\ ci.pc = "returned" /\ ci.accepted # NoResult
       => HasKrishnaName(ci.result)

\* len(line.split())
WordCount(line) == Len(Split(line))

CiDecorated ==
    UNION { { [line |-> line,
               out |-> ensure_emoji(line, extra),
               words |-> WordCount(line),
               out_words |-> WordCount(ensure_emoji(line, extra))] :
                extra \in SampleOutcomes(line) } :
            line \in CiCleaned }

EnsureEmojiInputs ==
    (CiCleaned \ CiFiltered) \cup
    {ci_clean_line(STYLE_EXAMPLES[k]) : k \in DOMAIN STYLE_EXAMPLES}

\* what ensure_emoji(text) has put behind the text
Appended(text, out) == SubSeq(out, Len(text) + 1, Len(out))

\* ensure_emoji on every text the generator hands to it, for every draw:
\* a text that holds an emoji of EMOJIS comes back unchanged; behind any
\* other text come a blank and emojis of EMOJIS, with a danda in front
\* exactly when the text does not end with a terminal mark
EnsureEmojiAppends ==
    \A text \in EnsureEmojiInputs :
       \A extra \in SampleOutcomes(text) :
          LET out == ensure_emoji(text, extra)
              ends == text # <<>> /\ text[Len(text)] \in TerminalMarks
          IN  /\ HasEmoji(text) => out = text
              /\ ~HasEmoji(text)
                 => /\ Len(out) > Len(text)
                    /\ SubSeq(out, 1, Len(text)) = text
                    /\ Range(extra) \subseteq Range(EMOJIS)
                    /\ extra # <<>>
                    /\ ends => Appended(text, out) = <<" ">> \o extra
                    /\ ~ends => Appended(text, out) =
                                   <<Danda, " ">> \o extra

\* C14: every caption generate_deep_krishna_line returns, accepted or
\* fallback, holds an emoji of EMOJIS; ensure_emoji leaves a text that holds
\* one unchanged, and otherwise appends a blank and emojis of EMOJIS, with a
\* danda in front exactly when the text does not end with a terminal mark.
C14_ReturnedHasEmoji ==
    ci.pc = "returned"
    => /\ HasEmoji(ci.result)
       /\ ensure_emoji(ci.result, <<>>) = ci.result
       /\ EnsureEmojiAppends

\* the fallback has returned the last style example, which holds no emoji of
\* EMOJIS and ends with none of the terminal marks: danda and emojis follow
C14_Witness ==
    /\ ci.pc = "returned"
    /\ ci.error = "fallback"
    /\ Len(ci.result) = Len(Example10) + 4
    /\ SubSeq(ci.result, 1, Len(Example10)) = Example10
    /\ ci.result[Len(Example10) + 1] = Danda
    /\ HasEmoji(ci.result)

\* C15: normalize_for_compare is idempotent: normalizing a normalized
\* string changes nothing.
C15_NormalizeIdempotent ==
    sim.phase = "checked"
    => normalize_for_compare(normalize_for_compare(sim.candidate)) =
       normalize_for_compare(sim.candidate)

\* C16: whatever the caption and the measure of its words, every line the
\* word-wrap of draw_centered_text produces is at most max_width wide.  (The
\* one exception of the claim, a last line made by merging overflow lines,
\* cannot arise: draw_centered_text merges no lines.)
C16_LinesWithinMaxWidth ==
    draw.pc = "done"
    => \A i \in DOMAIN draw.lines : LineWidth(draw.lines[i]) <= max_width

\* the minimum font size and the region height of the specification
\* (minFontSize, region height of scenario C); draw_centered_text has
\* neither
MinFontSize == 24
RegionHeight == 200

\* C17: the layout ends with a font size between minFontSize and the
\* starting size, and whenever that size is above minFontSize the block is
\* no higher than the region.
C17_ShrinkToFit ==
    draw.pc = "done"
    => /\ MinFontSize <= draw.font
       /\ draw.font <= FontSize
       /\ draw.font > MinFontSize => draw.total_height <= RegionHeight

\* the offsets of the specification for the top, middle and bottom band, in
\* percent of the height
BandOffsets == <<18, 50, 80>>

\* the band with the lowest mean luminance: top, then middle, then bottom on
\* ties
DarkestBand(bands) ==
    CHOOSE b \in 1..3 :
        /\ \A c \in 1..3 : bands[b] <= bands[c]
        /\ \A c \in 1..(b - 1) : bands[c] > bands[b]

\* C18: the text block is anchored at the offset of the darkest of the top,
\* middle and bottom band; at the bottom offset when the bottom band is
\* strictly the darkest.
C18_DarkestBandPlacement ==
    draw.pc = "done"
    => /\ draw.anchor = BandOffsets[DarkestBand(draw.bands)]
       /\ draw.bands[3] < draw.bands[1] /\ draw.bands[3] < draw.bands[2]
          => draw.anchor = BandOffsets[3]

\* C19: a run in which the duplicate check turned down at least one valid
\* candidate and no candidate was accepted returns one of the candidates it
\* turned down.
C19_NearMissReturned ==
    /\ gt.pc \in {"returned", "raised"} /\ gt.rejected # {}
          /\ gt.accepted = NoResult
       => gt.pc = "returned" /\ gt.result \in gt.rejected
    /\ ci.pc = "returned" /\ ci.rejected # {} /\ ci.accepted = NoResult
       => ci.result \in ci.rejected

\* C20: a run writes the history file only as it accepts a candidate: an
\* attempt that ends in a provider error, a validation failure or a
\* duplicate leaves history and file as they are, and the end of a run
\* without accepted candidate (fallback, exhaustion) leaves the file as it
\* was loaded.
C20_WrittenOnlyOnAccept ==
    [][/\ GtProviderError \/ GtRejectInvalid \/ GtRejectDuplicate
          => gt'.used = gt.used /\ used_texts_file' = used_texts_file
       /\ CiProviderError \/ CiEmptyResponse \/ CiRejectInvalid
             \/ CiRejectDuplicate
          => ci'.used = ci.used /\ used_lines_file' = used_lines_file
       /\ GtExhausted => used_texts_file' = used_texts_file
       /\ CiFallback => used_lines_file' = used_lines_file
       /\ used_texts_file' # used_texts_file => GtAccept
       /\ used_lines_file' # used_lines_file => CiAccept]_vars

\* C21: the fallback or exhaustion path is reached only after exactly
\* max_attempts attempts, none of which was accepted; an accepted candidate
\* ends the run at once, so no run both accepts and falls back, and no run
\* falls back while attempts remain.
C21_FallbackOnlyAfterAllAttempts ==
    /\ gt.error = "exhausted"
       => /\ gt.pc = "raised"
          /\ gt.attempt = MaxAttempts
          /\ gt.calls = MaxAttempts
          /\ gt.accepted = NoResult
    /\ ci.error = "fallback"
       => /\ ci.pc = "returned"
          /\ ci.attempts = MaxAttempts
          /\ ci.calls = MaxAttempts
          /\ ci.accepted = NoResult
          /\ ci.seen_this_call = {}
    /\ gt.accepted # NoResult
       => /\ gt.pc \in {"returned", "raised"}
          /\ gt.error # "exhausted"
          /\ ~ENABLED GtRun
    /\ ci.accepted # NoResult
       => /\ ci.pc = "returned"
          /\ ci.error # "fallback"
          /\ ~ENABLED CiRun
    /\ gt.pc = "loop" /\ gt.attempt < MaxAttempts => ~ENABLED GtExhausted
    /\ ci.pc = "loop" /\ ci.attempts < MaxAttempts => ~ENABLED CiFallback

\* generate_text.py has given up after max_attempts attempts, one of which
\* failed at the duplicate check
C21_Witness ==
    /\ gt.pc = "raised"
    /\ gt.error = "exhausted"
    /\ gt.attempt = MaxAttempts
    /\ gt.rejected # {}


\* the captions in the history file of the running script
RacePersisted ==
    IF script = "generate_text" THEN Range(Persisted(used_texts_file))
    ELSE Range(Persisted(used_lines_file))

\* process p accepted a caption, wrote the history and returned the caption
RaceDone(p) ==
    /\ race.procs[p].pc = "returned"
    /\ race.procs[p].accepted # NoResult
    /\ race.procs[p].io = "ok"

\* the caption process p accepted passes the checks of process q
RaceCanAcceptToo(p, q) ==
    IF script = "generate_text"
    THEN RaceGtAcceptable(q, race.procs[p].accepted)
    ELSE RaceCiAcceptable(q, race.procs[p].accepted)

\* C22: two overlapping processes of a generator race on the history file.
\* When both load before either saves and both accept, the write of the
\* second replaces the write of the first, so the persisted history omits
\* the caption the first one returned unless it is also the caption of the
\* second; and a process that loaded before the other saved can still accept
\* the caption the other accepted. Without that overlap neither happens.
C22_LostUpdateUnderOverlap ==
    \A p, q \in DOMAIN race.procs :
        p # q =>
          /\ ( /\ RaceDone(p) /\ RaceDone(q)
               /\ race.late = {}
               /\ race.saved = <<p, q>>
               /\ race.procs[p].accepted # race.procs[q].accepted )
             => race.procs[p].accepted \notin RacePersisted
          /\ ( /\ RaceDone(p)
               /\ q \notin race.late
               /\ RaceInLoop(q) )
             => RaceCanAcceptToo(p, q)
          /\ ( /\ RaceDone(p) /\ RaceDone(q)
               /\ \/ race.procs[p].accepted \notin RacePersisted
                  \/ race.procs[p].accepted = race.procs[q].accepted )
             => race.late = {}

\* both processes loaded before either saved, both accepted, saved and
\* returned, and the history file lacks the caption of the first
C22_Witness ==
    /\ race.procs # <<>>
    /\ RaceDone(1) /\ RaceDone(2)
    /\ race.late = {}
    /\ race.saved = <<1, 2>>
    /\ race.procs[1].result \notin RacePersisted
    /\ race.procs[2].result \in RacePersisted


\* the names in state/used_music.json
UsedMusic(file) ==
    IF file.kind \in {"list", "object"} THEN Range(file.items) ELSE {}

\* the first call found no used names, and no write has failed since
FromEmptyUsedList ==
    /\ load_used_music(bgm.first) = JsonFile("list", <<>>)
    /\ bgm.io_ok

\* C23: pick_bgm returns a track whose name is in the used list only when
\* every track's name is in it, and then the list is reset to the chosen
\* name alone; from an empty used list, with n tracks, the calls of every
\* block of n (1..n, n+1..2n, ...) return distinct tracks, and no name is
\* twice in the used list.
C23_MusicRotation ==
    /\ [][ Len(bgm'.returned) > Len(bgm.returned)
           => LET chosen == bgm'.returned[Len(bgm'.returned)]
              IN  /\ chosen \in Tracks(bgm.dir)
                  /\ chosen \in UsedMusic(bgm.file)
                     => /\ Tracks(bgm.dir) \subseteq UsedMusic(bgm.file)
                        /\ bgm'.file = JsonFile("list", <<chosen>>) ]_vars
    /\ [] ( FromEmptyUsedList
            => LET n == Cardinality(Tracks(bgm.dir))
               IN  /\ \A i, j \in DOMAIN bgm.returned :
                          /\ i < j
                          /\ (i - 1) \div n = (j - 1) \div n
                          => bgm.returned[i] # bgm.returned[j]
                   /\ \A i, j \in DOMAIN bgm.file.items :
                          i # j => bgm.file.items[i] # bgm.file.items[j] )

\* three tracks, an empty used list at first: three calls returned the three
\* tracks, the fourth reset the list and returned one of them again
C23_Witness ==
    /\ FromEmptyUsedList
    /\ Cardinality(Tracks(bgm.dir)) = 3
    /\ Len(bgm.returned) = 4
    /\ Range(SubSeq(bgm.returned, 1, 3)) = Tracks(bgm.dir)
    /\ bgm.file = JsonFile("list", <<bgm.returned[4]>>)


\* the words of the lines, line after line
RECURSIVE WordsOf(_)
WordsOf(lines) ==
    IF lines = <<>> THEN <<>> ELSE Head(lines) \o WordsOf(Tail(lines))

\* C24: the word-wrap of draw_centered_text loses and reorders nothing. No
\* line is empty, and the words of the lines, read line after line, are the
\* words of the caption in their order (a line is its words joined by single
\* blanks, so a word is whole on one line); a caption without words gives no
\* line. In the loop the lines and the current line together hold the words
\* taken so far.
C24_WrapKeepsWords ==
    /\ draw.pc \in {"wrap", "done"}
       => \A i \in DOMAIN draw.lines : draw.lines[i] # <<>>
    /\ draw.pc = "wrap"
       => WordsOf(draw.lines) \o draw.current =
          SubSeq(draw.words, 1, draw.next - 1)
    /\ draw.pc = "done"
       => /\ WordsOf(draw.lines) = draw.words
          /\ draw.words = <<>> <=> draw.lines = <<>>

\* a caption of three words has been wrapped into a line of two words and a
\* line of one
C24_Witness ==
    /\ draw.pc = "done"
    /\ Len(draw.words) = 3
    /\ Len(draw.lines) = 2
    /\ Len(draw.lines[1]) = 2
    /\ WordsOf(draw.lines) = draw.words

=============================================================================
